---- MODULE Spec2Model ----
(***************************************************************************)
(* Model of platmy/utils.py: the easy_chem output parser (read_abunds,     *)
(* dict_to_list), the file-based bridge to the easy_chem solver            *)
(* (get_PT_abundances_MMW) and the abundance-template selection            *)
(* (set_abundance_file).                                                   *)
(*                                                                         *)
(* Text is modelled by tokens: a header slot is an index field (a number,  *)
(* or text that int() rejects: isnum = FALSE) followed by a name field, a  *)
(* sequence of tokens in which " " is a blank.  A decoded name, and so a   *)
(* dictionary key, is the sequence of the non-blank tokens of a name field.*)
(* The header line is a comment line for numpy.genfromtxt (it starts with  *)
(* '#'), so that the numeric body is every line after the first.           *)
(***************************************************************************)
EXTENDS Integers, Sequences, FiniteSets, TLC

\* ---------------------------------------------------------------- bounds
MaxSlots == 2
MaxRows == 3
NCols == 4
NameLen == 2
MaxDictKeys == 2
MaxCalls == 2
MaxLayers == 2

\* ------------------------------------------------------- parser: the data
VARIABLES header, nrows, input_dict, dict_entry, ptask, ppc, ra_out, dl_out

pvars == <<header, nrows, input_dict, dict_entry, ptask, ppc, ra_out, dl_out>>

SpeciesTokens == {"H2", "P", "C2H2,acetylene"}
IndexFields == [isnum : {TRUE}, val : 0 .. NCols] \cup {[isnum |-> FALSE, val |-> 0]}
NameFields == {f \in [1 .. NameLen -> SpeciesTokens \cup {" "}] :
                 Cardinality({j \in 1 .. NameLen : f[j] # " "}) = 1}
Slots == [idx : IndexFields, name : NameFields]
Headers == UNION {[1 .. k -> Slots] : k \in 0 .. MaxSlots}

KeyP == <<"P">>
KeyT == <<"T">>
KeyRho == <<"rho">>

\* The value the body holds at row r, column c (0-based): all distinct.
Cell(r, c) == 10 * r + c

\* numpy.genfromtxt on a body of n rows of NCols columns: a 2-D array only
\* when there are at least two rows; one row gives a 1-D array of the row,
\* no row gives an empty 1-D array.
genfromtxt(n) ==
  [ndim |-> IF n >= 2 THEN 2 ELSE 1,
   rows |-> [r \in 1 .. n |-> [c \in 1 .. NCols |-> Cell(r - 1, c - 1)]]]

\* dat[:, c]: every row's element c; IndexError on a 1-D array or when c is
\* not a column.
ColumnOK(dat, c) == dat.ndim = 2 /\ c \in 0 .. NCols - 1
Column(dat, c) == [r \in 1 .. Len(dat.rows) |-> dat.rows[r][c + 1]]

\* ---------------------------------------------- parser: ordered dictionary
\* A dict is the sequence of its <<key, value>> items in insertion order.
DictKeys(d) == {d[j][1] : j \in 1 .. Len(d)}
DictGet(d, k) == LET j == CHOOSE j \in 1 .. Len(d) : d[j][1] = k IN d[j][2]
DictSet(d, k, v) ==
  IF k \in DictKeys(d)
  THEN [j \in 1 .. Len(d) |-> IF d[j][1] = k THEN <<k, v>> ELSE d[j]]
  ELSE Append(d, <<k, v>>)

\* list_of_dictionaries[i][k] = el for every element of column v, in order.
RECURSIVE FillColumn(_, _, _, _)
FillColumn(list, k, v, i) ==
  IF i > Len(v) THEN [err |-> "none", list |-> list]
  ELSE IF i > Len(list) THEN [err |-> "IndexError", list |-> list]
  ELSE FillColumn([list EXCEPT ![i] = (k :> v[i]) @@ list[i]], k, v, i + 1)

RECURSIVE FillItems(_, _, _)
FillItems(list, d, j) ==
  IF j > Len(d) THEN [err |-> "none", list |-> list]
  ELSE LET r == FillColumn(list, d[j][1], d[j][2], 1) IN
       IF r.err # "none" THEN r ELSE FillItems(r.list, d, j + 1)

\* dict_to_list sizing the list by the keys instead of by the first column
dict_to_list_per_key(d) ==
  IF Len(d) = 0 THEN [err |-> "StopIteration", list |-> << >>]
  ELSE FillItems([i \in 1 .. Len(d) |-> << >>], d, 1)

dict_to_list(d) ==
  IF Len(d) = 0 THEN [err |-> "StopIteration", list |-> << >>]
  ELSE FillItems([i \in 1 .. Len(d[1][2]) |-> << >>], d, 1)

\* ------------------------------------------------------ parser: the header
\* header[...][3:].replace(' ', '')
StripName(field) == SelectSeq(field, LAMBDA t : t # " ")
DecodeName(field) ==
  LET name == StripName(field) IN
  IF name = <<"C2H2,acetylene">> THEN <<"C2H2">> ELSE name

\* The loop over the header slots, slot i (0-based) being hdr[i + 1].
RECURSIVE HeaderLoop(_, _, _, _)
HeaderLoop(ret, hdr, dat, i) ==
  IF i >= Len(hdr) THEN [err |-> "none", ret |-> ret]
  ELSE LET slot == hdr[i + 1]
           name == DecodeName(slot.name)
       IN IF i % 2 = 0
          THEN IF ~slot.idx.isnum THEN [err |-> "ValueError", ret |-> ret]
               ELSE IF ~ColumnOK(dat, slot.idx.val)
                    THEN [err |-> "IndexError", ret |-> ret]
                    ELSE HeaderLoop(DictSet(ret, name, Column(dat, slot.idx.val)),
                                    hdr, dat, i + 1)
          ELSE HeaderLoop(ret, hdr, dat, i + 1)

read_abunds(hdr, n) ==
  LET dat == genfromtxt(n) IN
  IF ~ColumnOK(dat, 0) THEN [err |-> "IndexError", list |-> << >>]
  ELSE LET ret0 == <<<<KeyP, Column(dat, 0)>>, <<KeyT, Column(dat, 1)>>,
                     <<KeyRho, Column(dat, 2)>>>>
           r == HeaderLoop(ret0, hdr, dat, 0)
       IN IF r.err # "none" THEN [err |-> r.err, list |-> << >>]
          ELSE dict_to_list(r.ret)

\* ------------------------------------------------- parser: inputs, actions
DictKeySet == {<<"a">>, <<"b">>}
DictVals == {1, 2}
DictColumns == UNION {[1 .. n -> DictVals] : n \in 0 .. MaxRows}
DictItems == DictKeySet \X DictColumns
InputDicts == {d \in UNION {[1 .. k -> DictItems] : k \in 0 .. MaxDictKeys} :
                 \A i, j \in 1 .. Len(d) : d[i][1] = d[j][1] => i = j}

NoOut == [err |-> "pending", list |-> << >>]

ParseInputs ==
  /\ ppc = "ready"
  /\ ra_out = NoOut
  /\ dl_out = NoOut
  /\ \/ /\ ptask = "read_abunds"
        /\ header \in Headers
        /\ nrows \in 0 .. MaxRows
        /\ input_dict = << >>
     \/ /\ ptask = "dict_to_list"
        /\ header = << >>
        /\ nrows = 0
        /\ input_dict \in InputDicts
  /\ dict_entry = input_dict

ParseIdle ==
  /\ ppc = "off"
  /\ ptask = "none"
  /\ ra_out = NoOut
  /\ dl_out = NoOut
  /\ header = << >>
  /\ nrows = 0
  /\ input_dict = << >>
  /\ dict_entry = << >>

\* ------------------------------------------------- bridge: files and state
\* The callers are processes: each has its own working directory, all share
\* the file system.  A directory is the sequence of the path components below
\* the project directory, which holds easy_chem and no easy_chem/easy_chem.
\* local[p] holds the local variables of the call in progress (current_dir,
\* abunds, mmw), its arguments, and what is recorded of it: the content the
\* solver read (captured), how the solver ended (outcome), the statements
\* completed (trace) and the state at entry (entry).
VARIABLES fs, pc, cwd, local, result, ncalls

bvars == <<fs, pc, cwd, local, result, ncalls>>

vars == <<pvars, bvars>>

Procs == {"c1", "c2"}
ProjectDir == << >>
SolverDir == <<"easy_chem">>
DirExists(d) == d \in {ProjectDir, SolverDir}
\* os.path.join(current_dir, 'easy_chem')
JoinEasyChem(d) == Append(d, "easy_chem")

NoFile == [exists |-> FALSE, src |-> 0, n |-> 0, good |-> FALSE]
DataFile(src, n, good) == [exists |-> TRUE, src |-> src, n |-> n, good |-> good]
\* a cleanup that leaves the file in place
RemoveFileSkipped(files, name) == files
\* os.system('rm <name>')
RemoveFile(files, name) == [files EXCEPT ![name] = NoFile]
WorkingFiles == {"PT_struct.dat", "final_abund_all.dat", "MMWs.dat"}

\* The header easy_chem writes (one species, in data column 3), and a header
\* whose index field is not a number.
GoodHeader ==
  <<[idx |-> [isnum |-> TRUE, val |-> 3],
     name |-> [j \in 1 .. NameLen |-> IF j = 1 THEN "H2" ELSE " "]]>>
BadHeader ==
  <<[idx |-> [isnum |-> FALSE, val |-> 0],
     name |-> [j \in 1 .. NameLen |-> IF j = 1 THEN "H2" ELSE " "]]>>

\* read_abunds('final_abund_all.dat') on the file f of the working directory.
ReadAbundsFile(f) ==
  IF ~f.exists THEN [err |-> "FileNotFoundError", list |-> << >>]
  ELSE read_abunds(IF f.good THEN GoodHeader ELSE BadHeader, f.n)

\* np.genfromtxt('MMWs.dat') and dat[:, 1]
ReadMMWFile(f) ==
  IF ~f.exists THEN [err |-> "FileNotFoundError", list |-> << >>]
  ELSE IF ~f.good THEN [err |-> "ValueError", list |-> << >>]
  ELSE LET dat == genfromtxt(f.n) IN
       IF ~ColumnOK(dat, 1) THEN [err |-> "IndexError", list |-> << >>]
       ELSE [err |-> "none", list |-> Column(dat, 1)]

\* The statements of get_PT_abundances_MMW in program order; os.system is the
\* two steps "system" (the solver starts and reads its input) and "wait" (the
\* solver terminates and os.system returns).
\* the directory restored before the cleanup is complete
StepsRestoreEarly ==
  <<"chdir", "savetxt", "system", "wait", "read_abunds", "read_mmw", "rm_mmw",
    "rm_abund", "restore", "rm_pt">>
Steps == <<"chdir", "savetxt", "system", "wait", "read_abunds", "read_mmw",
           "rm_mmw", "rm_abund", "rm_pt", "restore">>
StepAfter(s) ==
  LET i == CHOOSE i \in 1 .. Len(Steps) : Steps[i] = s IN
  IF i = Len(Steps) THEN "return" ELSE Steps[i + 1]

\* a scope guard that restores the directory saved at entry
CwdOnRaiseRestored(now, saved) == saved
\* The working directory an exception leaves behind: nothing restores it.
CwdOnRaise(now, saved) == now

NoAbunds == [src |-> 0, recs |-> << >>]
NoMMW == [src |-> 0, vals |-> << >>]
NoEntry == [cwd |-> ProjectDir, inp |-> "absent"]
NoLocals ==
  [kind |-> "none", id |-> 0, n |-> 0, match |-> TRUE, atype |-> "none",
   file |-> "none", current_dir |-> ProjectDir, captured |-> NoFile,
   outcome |-> "none", abunds |-> NoAbunds, mmw |-> NoMMW, trace |-> << >>,
   entry |-> NoEntry]
NoResult ==
  [kind |-> "none", status |-> "none", id |-> 0, at |-> "none", err |-> "none",
   atype |-> "none", abunds |-> NoAbunds, mmw |-> NoMMW, trace |-> << >>,
   entry |-> NoEntry, outcome |-> "none"]

Templates == {"std", "subsolar"}
Selectors == Templates \cup {"solar"}
Outcomes == {"ok", "noout", "abund_only", "malformed"}

BridgeIdle ==
  /\ fs = [f \in WorkingFiles |-> NoFile] @@ ("abundances.inp" :> "absent")
  /\ pc = [p \in Procs |-> "idle"]
  /\ cwd = [p \in Procs |-> ProjectDir]
  /\ local = [p \in Procs |-> NoLocals]
  /\ result = [p \in Procs |-> NoResult]
  /\ ncalls = 0

BridgeInit == ParseIdle /\ BridgeIdle

ParseInit == ParseInputs /\ BridgeIdle

ReadAbundsCall ==
  /\ ptask = "read_abunds"
  /\ ppc = "ready"
  /\ ra_out' = read_abunds(header, nrows)
  /\ ppc' = "done"
  /\ UNCHANGED <<header, nrows, input_dict, dict_entry, ptask, dl_out>>
  /\ UNCHANGED bvars

DictToListCall ==
  /\ ptask = "dict_to_list"
  /\ ppc = "ready"
  /\ dl_out' = dict_to_list(input_dict)
  /\ ppc' = "done"
  /\ UNCHANGED <<header, nrows, input_dict, dict_entry, ptask, ra_out>>
  /\ UNCHANGED bvars

ParseNext == ReadAbundsCall \/ DictToListCall

ParseSpec == ParseInit /\ [][ParseNext]_vars

\* ------------------------------------------------------ bridge: the steps
\* A step of get_PT_abundances_MMW that completes: control moves to the next
\* statement, with the locals as the step leaves them.
Go(p, s, loc) ==
  /\ pc' = [pc EXCEPT ![p] = StepAfter(s)]
  /\ local' = [local EXCEPT ![p] = [loc EXCEPT !.trace = Append(@, s)]]

\* The call of p ends, by return or by an exception: its locals are gone.
Finish(p, status, s, e) ==
  /\ pc' = [pc EXCEPT ![p] = "idle"]
  /\ result' = [result EXCEPT ![p] =
       [kind |-> local[p].kind, status |-> status, id |-> local[p].id,
        at |-> s, err |-> e, atype |-> local[p].atype,
        abunds |-> IF status = "returned" THEN local[p].abunds ELSE NoAbunds,
        mmw |-> IF status = "returned" THEN local[p].mmw ELSE NoMMW,
        trace |-> local[p].trace, entry |-> local[p].entry,
        outcome |-> local[p].outcome]]
  /\ local' = [local EXCEPT ![p] = NoLocals]

\* A step that raises: the exception leaves the function.
Raise(p, s, e) ==
  /\ Finish(p, "raised", s, e)
  /\ cwd' = [cwd EXCEPT ![p] = CwdOnRaise(cwd[p], local[p].current_dir)]

AllIdle == \A q \in Procs : pc[q] = "idle"

\* get_PT_abundances_MMW(pressure, temperature) is entered with a pressure
\* of n elements and a temperature of as many, or not (match);
\* current_dir = os.getcwd()
Begin(p) ==
  /\ pc[p] = "idle"
  /\ ncalls < MaxCalls
  /\ ncalls' = ncalls + 1
  /\ \E n \in 1 .. MaxLayers, m \in BOOLEAN :
       local' = [local EXCEPT ![p] =
         [NoLocals EXCEPT !.kind = "get_PT_abundances_MMW",
                          !.id = ncalls + 1, !.n = n, !.match = m,
                          !.current_dir = cwd[p],
                          !.entry = [cwd |-> cwd[p],
                                     inp |-> fs["abundances.inp"]]]]
  /\ pc' = [pc EXCEPT ![p] = Steps[1]]
  /\ UNCHANGED <<fs, cwd, result>>
  /\ UNCHANGED pvars

\* os.chdir(os.path.join(current_dir, 'easy_chem'))
Chdir(p) ==
  /\ pc[p] = "chdir"
  /\ LET target == JoinEasyChem(local[p].current_dir) IN
     IF DirExists(target)
     THEN /\ cwd' = [cwd EXCEPT ![p] = target]
          /\ Go(p, "chdir", local[p])
          /\ UNCHANGED result
     ELSE Raise(p, "chdir", "FileNotFoundError")
  /\ UNCHANGED <<fs, ncalls>>
  /\ UNCHANGED pvars

\* np.savetxt('PT_struct.dat', np.column_stack((pressure, temperature)))
SaveTxt(p) ==
  /\ pc[p] = "savetxt"
  /\ IF local[p].match
     THEN /\ fs' = [fs EXCEPT !["PT_struct.dat"] =
                      DataFile(local[p].id, local[p].n, TRUE)]
          /\ Go(p, "savetxt", local[p])
          /\ UNCHANGED <<cwd, result>>
     ELSE /\ Raise(p, "savetxt", "ValueError")
          /\ UNCHANGED fs
  /\ UNCHANGED ncalls
  /\ UNCHANGED pvars

\* os.system('./call_easy_chem'): the solver starts and reads PT_struct.dat.
SolverStart(p) ==
  /\ pc[p] = "system"
  /\ Go(p, "system", [local[p] EXCEPT !.captured = fs["PT_struct.dat"]])
  /\ UNCHANGED <<fs, cwd, result, ncalls>>
  /\ UNCHANGED pvars

\* What the solver leaves in the working directory when it terminates: both
\* output files, no output at all (missing or failing executable), only the
\* abundances, or abundances with a damaged header.
SolverWrites(files, inp, oc) ==
  IF oc = "ok"
  THEN [files EXCEPT !["final_abund_all.dat"] = DataFile(inp.src, inp.n, TRUE),
                     !["MMWs.dat"] = DataFile(inp.src, inp.n, TRUE)]
  ELSE IF oc = "abund_only"
  THEN [files EXCEPT !["final_abund_all.dat"] = DataFile(inp.src, inp.n, TRUE)]
  ELSE IF oc = "malformed"
  THEN [files EXCEPT !["final_abund_all.dat"] = DataFile(inp.src, inp.n, FALSE),
                     !["MMWs.dat"] = DataFile(inp.src, inp.n, TRUE)]
  ELSE files

\* os.system returns: the solver has terminated; its exit status is dropped.
SolverExit(p) ==
  /\ pc[p] = "wait"
  /\ \E oc \in Outcomes :
       /\ ~local[p].captured.exists => oc = "noout"
       /\ fs' = SolverWrites(fs, local[p].captured, oc)
       /\ Go(p, "wait", [local[p] EXCEPT !.outcome = oc])
  /\ UNCHANGED <<cwd, result, ncalls>>
  /\ UNCHANGED pvars

\* abunds = read_abunds('final_abund_all.dat')
ReadAbunds(p) ==
  /\ pc[p] = "read_abunds"
  /\ LET f == fs["final_abund_all.dat"]
         r == ReadAbundsFile(f)
     IN IF r.err = "none"
        THEN /\ Go(p, "read_abunds",
                   [local[p] EXCEPT !.abunds = [src |-> f.src, recs |-> r.list]])
             /\ UNCHANGED <<cwd, result>>
        ELSE Raise(p, "read_abunds", r.err)
  /\ UNCHANGED <<fs, ncalls>>
  /\ UNCHANGED pvars

\* dat = np.genfromtxt('MMWs.dat'); mmw = dat[:, 1]
ReadMMW(p) ==
  /\ pc[p] = "read_mmw"
  /\ LET f == fs["MMWs.dat"]
         r == ReadMMWFile(f)
     IN IF r.err = "none"
        THEN /\ Go(p, "read_mmw",
                   [local[p] EXCEPT !.mmw = [src |-> f.src, vals |-> r.list]])
             /\ UNCHANGED <<cwd, result>>
        ELSE Raise(p, "read_mmw", r.err)
  /\ UNCHANGED <<fs, ncalls>>
  /\ UNCHANGED pvars

\* os.system('rm MMWs.dat')
RmMMW(p) ==
  /\ pc[p] = "rm_mmw"
  /\ fs' = RemoveFile(fs, "MMWs.dat")
  /\ Go(p, "rm_mmw", local[p])
  /\ UNCHANGED <<cwd, result, ncalls>>
  /\ UNCHANGED pvars

\* os.system('rm final_abund_all.dat')
RmAbund(p) ==
  /\ pc[p] = "rm_abund"
  /\ fs' = RemoveFile(fs, "final_abund_all.dat")
  /\ Go(p, "rm_abund", local[p])
  /\ UNCHANGED <<cwd, result, ncalls>>
  /\ UNCHANGED pvars

\* os.system('rm PT_struct.dat')
RmPT(p) ==
  /\ pc[p] = "rm_pt"
  /\ fs' = RemoveFile(fs, "PT_struct.dat")
  /\ Go(p, "rm_pt", local[p])
  /\ UNCHANGED <<cwd, result, ncalls>>
  /\ UNCHANGED pvars

\* os.chdir(current_dir)
Restore(p) ==
  /\ pc[p] = "restore"
  /\ cwd' = [cwd EXCEPT ![p] = local[p].current_dir]
  /\ Go(p, "restore", local[p])
  /\ UNCHANGED <<fs, result, ncalls>>
  /\ UNCHANGED pvars

\* return abunds, mmw
Return(p) ==
  /\ pc[p] = "return"
  /\ Finish(p, "returned", "return", "none")
  /\ UNCHANGED <<fs, cwd, ncalls>>
  /\ UNCHANGED pvars

\* ------------------------------------------------ set_abundance_file steps
\* What Python 3 raises for `raise x`: a tuple is not an exception.
PyRaise(x) == IF x.tuple THEN "TypeError" ELSE x.type
\* raise(KeyError, "Error: not valid option. ...")
InvalidOption == [tuple |-> TRUE, type |-> "KeyError"]

TemplateFile(atype) ==
  IF atype = "std" THEN "Standard_abundances.inp"
  ELSE IF atype = "subsolar" THEN "Subsolar_abundances.inp"
  ELSE "none"

\* cp <file> abundances.inp: the content of the template
TemplateContent(file) ==
  IF file = "Standard_abundances.inp" THEN "std" ELSE "subsolar"

\* set_abundance_file(atype) is entered.
SaBegin(p) ==
  /\ pc[p] = "idle"
  /\ ncalls < MaxCalls
  /\ ncalls' = ncalls + 1
  /\ \E a \in Selectors :
       local' = [local EXCEPT ![p] =
         [NoLocals EXCEPT !.kind = "set_abundance_file", !.id = ncalls + 1,
                          !.atype = a,
                          !.entry = [cwd |-> cwd[p],
                                     inp |-> fs["abundances.inp"]]]]
  /\ pc' = [pc EXCEPT ![p] = "sa_select"]
  /\ UNCHANGED <<fs, cwd, result>>
  /\ UNCHANGED pvars

\* if atype == 'std' ... elif ... else: raise(...); current_dir = os.getcwd()
SaSelect(p) ==
  /\ pc[p] = "sa_select"
  /\ IF local[p].atype \in Templates
     THEN /\ local' = [local EXCEPT ![p].file = TemplateFile(local[p].atype),
                                    ![p].current_dir = cwd[p]]
          /\ pc' = [pc EXCEPT ![p] = "sa_chdir"]
          /\ UNCHANGED <<cwd, result>>
     ELSE Raise(p, "sa_select", PyRaise(InvalidOption))
  /\ UNCHANGED <<fs, ncalls>>
  /\ UNCHANGED pvars

\* os.chdir(os.path.join(current_dir, 'easy_chem'))
SaChdir(p) ==
  /\ pc[p] = "sa_chdir"
  /\ LET target == JoinEasyChem(local[p].current_dir) IN
     IF DirExists(target)
     THEN /\ cwd' = [cwd EXCEPT ![p] = target]
          /\ pc' = [pc EXCEPT ![p] = "sa_cp"]
          /\ UNCHANGED <<local, result>>
     ELSE Raise(p, "sa_chdir", "FileNotFoundError")
  /\ UNCHANGED <<fs, ncalls>>
  /\ UNCHANGED pvars

\* os.system(f'cp {file} abundances.inp')
SaCopy(p) ==
  /\ pc[p] = "sa_cp"
  /\ fs' = [fs EXCEPT !["abundances.inp"] = TemplateContent(local[p].file)]
  /\ pc' = [pc EXCEPT ![p] = "sa_restore"]
  /\ UNCHANGED <<cwd, local, result, ncalls>>
  /\ UNCHANGED pvars

\* os.chdir(current_dir), and the function returns
SaRestore(p) ==
  /\ pc[p] = "sa_restore"
  /\ cwd' = [cwd EXCEPT ![p] = local[p].current_dir]
  /\ Finish(p, "returned", "return", "none")
  /\ UNCHANGED <<fs, ncalls>>
  /\ UNCHANGED pvars

\* --------------------------------------------------- bridge: specifications
Step(p) ==
  \/ Chdir(p) \/ SaveTxt(p) \/ SolverStart(p) \/ SolverExit(p)
  \/ ReadAbunds(p) \/ ReadMMW(p) \/ RmMMW(p) \/ RmAbund(p) \/ RmPT(p)
  \/ Restore(p) \/ Return(p)
  \/ SaSelect(p) \/ SaChdir(p) \/ SaCopy(p) \/ SaRestore(p)

\* Callers in separate processes, free to overlap.
Next == \E p \in Procs : Begin(p) \/ SaBegin(p) \/ Step(p)

Spec == BridgeInit /\ [][Next]_vars

\* Callers that call one after the other: a call begins only when no other
\* call is in progress.
SeqBegin(p) == AllIdle /\ Begin(p)
SeqSaBegin(p) == AllIdle /\ SaBegin(p)
SeqNext == \E p \in Procs : SeqBegin(p) \/ SeqSaBegin(p) \/ Step(p)

SeqSpec == BridgeInit /\ [][SeqNext]_vars

\* ===================================================== parser: properties
\* A well-formed header: every even-indexed slot has a numeric index field
\* that names a column of the body.
WellFormedHeader(hdr) ==
  \A i \in 0 .. Len(hdr) - 1 :
    i % 2 = 0 => hdr[i + 1].idx.isnum /\ hdr[i + 1].idx.val \in 0 .. NCols - 1

EvenSlots(hdr) == {i \in 0 .. Len(hdr) - 1 : i % 2 = 0}
Renamed(name) == IF name = <<"C2H2,acetylene">> THEN <<"C2H2">> ELSE name
SpeciesOf(slot) == Renamed(SelectSeq(slot.name, LAMBDA t : t # " "))
ExpectedKeys(hdr) ==
  {KeyP, KeyT, KeyRho} \cup {SpeciesOf(hdr[i + 1]) : i \in EvenSlots(hdr)}

ReadAbundsDone == ptask = "read_abunds" /\ ppc = "done"
DictToListDone == ptask = "dict_to_list" /\ ppc = "done"

\* C1: for every well-formed abundances file with N body lines (N >= 0),
\* read_abunds returns exactly N records, each with key set {P, T, rho}
\* united with the decoded species names of the even-indexed header slots.
C1_RecordsPerBodyLine ==
  (ReadAbundsDone /\ WellFormedHeader(header)) =>
    /\ ra_out.err = "none"
    /\ Len(ra_out.list) = nrows
    /\ \A r \in 1 .. Len(ra_out.list) :
         DOMAIN ra_out.list[r] = ExpectedKeys(header)

EqualLengthColumns(d) == \A i, j \in 1 .. Len(d) : Len(d[i][2]) = Len(d[j][2])

\* C2: for an input mapping with at least one key and columns of one length N,
\* dict_to_list returns N records; record i has exactly the keys of the input
\* and maps key k to element i of column k; the input mapping is unchanged.
C2_DictToListTransposes ==
  (DictToListDone /\ Len(dict_entry) >= 1 /\ EqualLengthColumns(dict_entry)) =>
    /\ dl_out.err = "none"
    /\ Len(dl_out.list) = Len(dict_entry[1][2])
    /\ \A i \in 1 .. Len(dl_out.list) :
         /\ DOMAIN dl_out.list[i] = DictKeys(dict_entry)
         /\ \A k \in DictKeys(dict_entry) :
              dl_out.list[i][k] = DictGet(dict_entry, k)[i]
    /\ input_dict = dict_entry

C2_Witness ==
  /\ DictToListDone
  /\ Len(dict_entry) = 2
  /\ EqualLengthColumns(dict_entry)
  /\ Len(dict_entry[1][2]) >= 2
  /\ dict_entry[1][2] # dict_entry[2][2]
  /\ Len(dl_out.list) = Len(dict_entry[1][2])

\* C8: in every record of a well-formed file, "P", "T" and "rho" hold columns
\* 0, 1 and 2 of the record's row whatever the header names, and every
\* even-slot species name holds the column its index field gives.
C8_FixedAndIndexedColumns ==
  (ReadAbundsDone /\ WellFormedHeader(header)) =>
    \A r \in 1 .. Len(ra_out.list) :
      LET rec == ra_out.list[r] IN
      /\ {KeyP, KeyT, KeyRho} \subseteq DOMAIN rec
      /\ rec[KeyP] = Cell(r - 1, 0)
      /\ rec[KeyT] = Cell(r - 1, 1)
      /\ rec[KeyRho] = Cell(r - 1, 2)
      /\ \A i \in EvenSlots(header) :
           /\ SpeciesOf(header[i + 1]) \in DOMAIN rec
           /\ rec[SpeciesOf(header[i + 1])] = Cell(r - 1, header[i + 1].idx.val)

\* C9: read_abunds on a file with a valid header and no body line returns an
\* empty record sequence and raises no error.
C9_EmptyBodyGivesNoRecords ==
  (ReadAbundsDone /\ WellFormedHeader(header) /\ nrows = 0) =>
    (ra_out.err = "none" /\ ra_out.list = << >>)
\* ===================================================== bridge: properties
IsBridgeCall(r) == r.kind = "get_PT_abundances_MMW"
IsSelection(r) == r.kind = "set_abundance_file"
Position(t, s) == CHOOSE i \in 1 .. Len(t) : t[i] = s
Before(t, a, b) == Position(t, a) < Position(t, b)
AllSteps == {"chdir", "savetxt", "system", "wait", "read_abunds", "read_mmw",
             "rm_mmw", "rm_abund", "rm_pt", "restore"}
Removals == {"rm_mmw", "rm_abund", "rm_pt"}
NoWorkingFile == \A f \in WorkingFiles : ~fs[f].exists

\* C3: every successful call of get_PT_abundances_MMW has performed each of
\* its steps exactly once and in the order: change directory, write
\* PT_struct.dat from its own input, run the solver to termination, read
\* final_abund_all.dat, read MMWs.dat, delete the three files, restore the
\* directory; outputs are read only after the solver terminated, nothing is
\* deleted before both outputs are read, and it returns in the directory it
\* was entered in.
C3_StepsInOrder ==
  \A p \in Procs :
    /\ (IsBridgeCall(result[p]) /\ result[p].status = "returned") =>
         LET t == result[p].trace IN
         /\ Len(t) = Cardinality(AllSteps)
         /\ {t[i] : i \in 1 .. Len(t)} = AllSteps
         /\ Before(t, "chdir", "savetxt")
         /\ Before(t, "savetxt", "system")
         /\ Before(t, "system", "wait")
         /\ Before(t, "wait", "read_abunds")
         /\ Before(t, "read_abunds", "read_mmw")
         /\ \A d \in Removals : Before(t, "read_mmw", d) /\ Before(t, d, "restore")
         /\ pc[p] = "idle" => cwd[p] = result[p].entry.cwd
    /\ pc[p] = "system" =>
         fs["PT_struct.dat"] = DataFile(local[p].id, local[p].n, TRUE)
    /\ pc[p] \in {"read_abunds", "read_mmw"} => local[p].outcome # "none"
    /\ pc[p] = "return" => NoWorkingFile /\ cwd[p] = local[p].entry.cwd

C3_Witness ==
  \E p, q \in Procs :
    /\ IsBridgeCall(result[p]) /\ result[p].status = "returned"
    /\ IsBridgeCall(result[q]) /\ result[q].status = "raised"
    /\ result[q].at = "read_mmw"
    /\ result[q].id < result[p].id
    /\ pc[p] = "idle"

\* C4: after any call of get_PT_abundances_MMW that got as far as writing
\* PT_struct.dat, whether it returned or failed, none of the three working
\* files remains.
C4_WorkingFilesRemoved ==
  \A p \in Procs :
    (/\ pc[p] = "idle"
     /\ IsBridgeCall(result[p])
     /\ result[p].id = ncalls
     /\ result[p].at \notin {"chdir", "savetxt"}) => NoWorkingFile

\* C5: concurrent calls are serialized: at most one call is between its write
\* of PT_struct.dat and its deletion of the working files, and what a call
\* returns derives from its own input.
InWindow(p) ==
  pc[p] \in {"system", "wait", "read_abunds", "read_mmw", "rm_mmw", "rm_abund",
             "rm_pt"}
C6_NoResultWithoutSolverOutput ==
  \A p \in Procs :
    /\ (IsBridgeCall(result[p]) /\ result[p].outcome = "noout") =>
         /\ result[p].status = "raised"
         /\ result[p].abunds = NoAbunds
         /\ result[p].mmw = NoMMW
    /\ pc[p] = "return" => local[p].outcome # "noout"

C6_Witness ==
  \E p \in Procs :
    /\ IsBridgeCall(result[p])
    /\ result[p].outcome = "noout"
    /\ result[p].at = "read_mmw"
    /\ fs["final_abund_all.dat"].exists
    /\ fs["final_abund_all.dat"].src # result[p].id

\* C7: set_abundance_file with a selector other than 'std' or 'subsolar'
\* fails with the configuration error it names (KeyError), before any effect:
\* working directory and abundances.inp are as they were.
C7_InvalidSelectorRejected ==
  \A p \in Procs :
    (/\ pc[p] = "idle"
     /\ IsSelection(result[p])
     /\ result[p].id = ncalls
     /\ result[p].atype \notin {"std", "subsolar"}) =>
       /\ result[p].status = "raised"
       /\ result[p].err = "KeyError"
       /\ cwd[p] = result[p].entry.cwd
       /\ fs["abundances.inp"] = result[p].entry.inp

\* C10: a call of get_PT_abundances_MMW that fails after its directory change
\* leaves the working directory at the solver directory, not the directory at
\* entry, and the following call resolves 'easy_chem' relative to it.
FailedAfterChdir(r) ==
  IsBridgeCall(r) /\ r.status = "raised" /\ r.at # "chdir"
C10_FailureLeavesSolverDir ==
  \A p \in Procs :
    FailedAfterChdir(result[p]) =>
      /\ cwd[p] = <<"easy_chem">>
      /\ cwd[p] # result[p].entry.cwd
      /\ pc[p] \in {"chdir", "sa_chdir"} =>
           JoinEasyChem(local[p].current_dir) = <<"easy_chem", "easy_chem">>

C10_Witness ==
  \E p \in Procs :
    /\ FailedAfterChdir(result[p])
    /\ result[p].at = "read_abunds"
    /\ pc[p] = "chdir"
    /\ local[p].current_dir = <<"easy_chem">>
====
